---- MODULE Spec2Model ----
(***************************************************************************)
(* Model of the debug session layer of cdp-gdb-bridge                      *)
(* (core/DebugSession.ts): DebugSession (module registry),                 *)
(* NormalSessionState / PausedSessionState (the two session modes) and     *)
(* DebugSessionManager (command dispatch, breakpoint registry, gateway     *)
(* notification handlers).                                                 *)
(*                                                                         *)
(* Every async handler is cut at its awaits: the code up to the first      *)
(* await is the action named after the handler, and each continuation      *)
(* after a gateway round-trip is an action of its own that takes the       *)
(* in-flight command from `tasks`.                                         *)
(*                                                                         *)
(* JavaScript strings that the code splits or compares are sequences of    *)
(* one-character strings; JavaScript numbers are tagged records so that    *)
(* -Infinity and NaN are values of the model.                              *)
(***************************************************************************)
EXTENDS Integers, Sequences, FiniteSets, Bags, TLC

\* ------------------------------------------------------------------ bounds
MaxLen     == 2    \* longest location string without ':' given to setBreakPoint
MaxBps     == 2    \* most records the breakpoint registry holds
MaxModules == 2    \* most modules the module registry holds
MaxFrames  == 2    \* most call frames a paused notification carries
MaxTasks   == 2    \* most handlers awaiting a gateway round-trip
MaxDumps   == 2    \* most dumpVariable commands among them
MaxRaw     == 3    \* protocol breakpoint ids the gateway hands out

\* ---------------------------------------------------------- JS primitives
Alphabet == {"a", ":", "5"}
Digits   == {"5"}

Num(n)       == [k |-> "num", v |-> n]
NegInfinity  == [k |-> "-inf", v |-> 0]
NaN          == [k |-> "nan", v |-> 0]

\* ==  on numbers: NaN equals nothing, itself included
NumEq(x, y) == x.k # "nan" /\ y.k # "nan" /\ x = y

\* x + 1
PlusOne(x) == IF x.k = "num" THEN Num(x.v + 1) ELSE x

\* x < y on numbers (false when either is NaN)
NumLess(x, y) ==
    /\ x.k # "nan" /\ y.k # "nan"
    /\ \/ x.k = "-inf" /\ y.k = "num"
       \/ x.k = "num" /\ y.k = "num" /\ x.v < y.v

\* Math.max.apply(null, xs): -Infinity for no argument, NaN if any is NaN
RECURSIVE MathMax(_)
MathMax(xs) ==
    IF xs = <<>> THEN NegInfinity
    ELSE LET h == Head(xs)
             m == MathMax(Tail(xs))
         IN  IF h.k = "nan" \/ m.k = "nan" THEN NaN
             ELSE IF NumLess(h, m) THEN m ELSE h

DigitVal(c) == CASE c = "5" -> 5

RECURSIVE DigitsValue(_)
DigitsValue(s) ==
    IF s = <<>> THEN 0
    ELSE 10 * DigitsValue(SubSeq(s, 1, Len(s) - 1)) + DigitVal(s[Len(s)])

\* Number(s) for a string without white space, sign or dot
Number(s) ==
    IF s = <<>> THEN Num(0)
    ELSE IF \A i \in 1..Len(s) : s[i] \in Digits THEN Num(DigitsValue(s))
    ELSE NaN

\* Number(xs[i - 1]): an element outside the array is undefined, and
\* Number(undefined) is NaN
NumberAt(xs, i) == IF i \in DOMAIN xs THEN Number(xs[i]) ELSE NaN

\* s.split(':')
RECURSIVE Split(_)
Split(s) ==
    IF \A i \in 1..Len(s) : s[i] # ":" THEN <<s>>
    ELSE LET p == CHOOSE i \in 1..Len(s) :
                      s[i] = ":" /\ \A j \in 1..(i - 1) : s[j] # ":"
         IN  <<SubSeq(s, 1, p - 1)>> \o Split(SubSeq(s, p + 1, Len(s)))

\* a || b on strings (the empty string is falsy) and on numbers (0 and NaN
\* are falsy)
StrOr(a, b) == IF a = <<>> THEN b ELSE a
NumOr(a, b) == IF a = Num(0) \/ a.k = "nan" THEN b ELSE a

Strings(n) == UNION {[1..m -> Alphabet] : m \in 0..n}

\* ------------------------------------------------- the debug-info decoder
\* Scripts the gateway reports; the bytecode of a WebAssembly script decides
\* what its debug information answers.
FileA     == <<"a">>
ScriptIds == {"s1", "s2", "j1"}
ScriptLanguage(id) == IF id = "j1" THEN "JavaScript" ELSE "WebAssembly"
NoLocation == [found |-> FALSE, file |-> <<>>, line |-> Num(0)]
NoAddress  == [found |-> FALSE, address |-> 0]
NoVariable == [found |-> FALSE, address |-> 0, byte_size |-> 0]

\* WebAssemblyFile.findFileFromLocation(loc): the source line of an address.
\* s1 maps 16 to a:5 and 32 to a:0 (a row without a source line); s2 maps
\* 48 to a:5.
DwarfFindFile(scriptID, columnNumber) ==
    IF scriptID = "s1" /\ columnNumber = 16
        THEN [found |-> TRUE, file |-> FileA, line |-> Num(5)]
    ELSE IF scriptID = "s1" /\ columnNumber = 32
        THEN [found |-> TRUE, file |-> FileA, line |-> Num(0)]
    ELSE IF scriptID = "s2" /\ columnNumber = 48
        THEN [found |-> TRUE, file |-> FileA, line |-> Num(5)]
    ELSE NoLocation

\* WebAssemblyFile.findAddressFromFileLocation(file, line)
DwarfFindAddress(scriptID, file, line) ==
    IF scriptID = "s1" /\ file = FileA /\ NumEq(line, Num(5))
        THEN [found |-> TRUE, address |-> 16]
    ELSE IF scriptID = "s2" /\ file = FileA /\ NumEq(line, Num(5))
        THEN [found |-> TRUE, address |-> 48]
    ELSE NoAddress

\* dwarf.variable_name_list(address)
DwarfVariableNameList(scriptID, address) ==
    IF scriptID = "s1" /\ address = 16
        THEN <<[name |-> "x", type |-> "int"]>>
    ELSE <<>>

\* dwarf.get_variable_info(expr, locals, globals, stacks, address)
\* s1 knows x in f (at 16) and another x in g (at 32)
DwarfGetVariableInfo(scriptID, expr, address) ==
    IF scriptID = "s1" /\ expr = "x" /\ address = 16
        THEN [found |-> TRUE, address |-> 100, byte_size |-> 4]
    ELSE IF scriptID = "s1" /\ expr = "x" /\ address = 32
        THEN [found |-> TRUE, address |-> 200, byte_size |-> 8]
    ELSE NoVariable

\* the expressions dumpVariable is given: what the debug information makes
\* of one depends on the frame it is asked for
Exprs == {"x"}

\* Call frames a paused notification can carry.  A frame of a WebAssembly
\* script has line 0 and its byte offset as the column, the location format
\* findAddressFromFileLocation also produces.
CallFrame(id, fn, sid, ln, col, u) ==
    [callFrameId |-> id, functionName |-> fn,
     location |-> [scriptId |-> sid, lineNumber |-> Num(ln), columnNumber |-> col],
     url |-> u]

\* The call chain of the page: f (innermost) called by g called by the
\* JavaScript function j.
CallChain ==
    << CallFrame("c1", "f", "s1", 0, 16, <<"w">>),
       CallFrame("c2", "g", "s1", 0, 32, <<"w">>),
       CallFrame("c3", "j", "j1", 7, 3, <<"j">>) >>

\* the frames of the chain at the positions ps, in the chain's order
RECURSIVE Pick(_, _)
Pick(chain, ps) ==
    IF chain = <<>> THEN <<>>
    ELSE (IF Len(chain) \in ps THEN Pick(SubSeq(chain, 1, Len(chain) - 1), ps)
                                     \o <<chain[Len(chain)]>>
          ELSE Pick(SubSeq(chain, 1, Len(chain) - 1), ps))

\* what a paused notification carries: up to MaxFrames frames of the chain
CallFrameLists ==
    {Pick(CallChain, ps) : ps \in {q \in SUBSET DOMAIN CallChain :
                                      Cardinality(q) <= MaxFrames}}

\* Files showLine finds on the local disk
ExistingFiles == {FileA}

\* ------------------------------------------------------------------ state
VARIABLES
    sources,       \* DebugSession.sources: the module registry
    breakPoints,   \* DebugSessionManager.breakPoints
    sessionState,  \* DebugSessionManager.sessionState: the active mode object
    tasks,         \* handlers suspended at an await on the gateway
    gateway,       \* the browser side: breakpoints it holds, next protocol id
    last           \* the step just taken: handler, its arguments, return
                   \* value, gateway requests its command has issued, events
                   \* sent to the sink, console line, debug-info handles freed

vars == <<sources, breakPoints, sessionState, tasks, gateway, last>>

\* new NormalSessionState(): an object without fields
NormalSessionState ==
    [mode |-> "Running", stackFrames |-> <<>>, selectedFrameIndex |-> 0]

\* a Paused state that takes over the focus of the state it replaces
PausedSessionState_KeepingFocus(stackFrames) ==
    [mode |-> "Paused", stackFrames |-> stackFrames,
     selectedFrameIndex |-> sessionState.selectedFrameIndex]

\* new PausedSessionState(debugger, runtime, session, stackFrames)
PausedSessionState(stackFrames) ==
    [mode |-> "Paused", stackFrames |-> stackFrames, selectedFrameIndex |-> 0]

\* return values
Void        == [t |-> "void", v |-> <<>>]
Undefined   == [t |-> "undefined", v |-> <<>>]
Array(xs)   == [t |-> "array", v |-> xs]
Value(x)    == [t |-> "value", v |-> <<x>>]
Throw(e)    == [t |-> "throw", v |-> <<e>>]
Pending     == [t |-> "pending", v |-> <<>>]

Step(op, arg, ret, reqs, sent, log) ==
    [op |-> op, arg |-> arg, ret |-> ret, reqs |-> reqs, sent |-> sent, log |-> log,
     freed |-> <<>>]

Init ==
    /\ sources = <<>>
    /\ breakPoints = <<>>
    /\ sessionState = NormalSessionState
    /\ tasks = EmptyBag
    /\ gateway = [breakpoints |-> {}, nextId |-> 1]
    /\ last = Step("constructor", <<>>, Void, <<>>, <<>>, "")

\* ------------------------------------------------- DebugSession (registry)
\* new WebAssemblyFile(scriptID, container): the container is the handle of
\* the decoded debug information, which free() releases
WebAssemblyFile(scriptID, container) == [scriptID |-> scriptID, container |-> container]

\* DebugSession.findFileFromLocation(loc)
findFileFromLocation(srcs, loc) ==
    LET own == SelectSeq(srcs, LAMBDA x : x.scriptID = loc.scriptId)
    IN  IF own = <<>> THEN NoLocation
        ELSE DwarfFindFile(own[1].scriptID, loc.columnNumber)

\* DebugSession.findAddressFromFileLocation(file, line)
RECURSIVE findAddressFromFileLocation(_, _, _)
findAddressFromFileLocation(srcs, file, line) ==
    IF srcs = <<>> THEN [found |-> FALSE, scriptId |-> "", line |-> 0, column |-> 0]
    ELSE LET address == DwarfFindAddress(Head(srcs).scriptID, file, line)
         IN  IF address.found
             THEN [found |-> TRUE, scriptId |-> Head(srcs).scriptID,
                   line |-> 0, column |-> address.address]
             ELSE findAddressFromFileLocation(Tail(srcs), file, line)

\* DebugSession.getVariablelistFromAddress(address): <<>> stands for undefined
RECURSIVE getVariablelistFromAddress(_, _)
getVariablelistFromAddress(srcs, address) ==
    IF srcs = <<>> THEN <<>>
    ELSE LET list == DwarfVariableNameList(Head(srcs).scriptID, address)
         IN  IF Len(list) > 0 THEN list
             ELSE getVariablelistFromAddress(Tail(srcs), address)

\* DebugSession.getVariableValue(expr, address, state)
RECURSIVE getVariableValue(_, _, _)
getVariableValue(srcs, expr, address) ==
    IF srcs = <<>> THEN NoVariable
    ELSE LET list == DwarfGetVariableInfo(Head(srcs).scriptID, expr, address)
         IN  IF list.found THEN list
             ELSE getVariableValue(Tail(srcs), expr, address)

\* --------------------------------------------------- suspended handlers
\* A handler suspended at an await.  `live` tells whether the
\* PausedSessionState object a dumpVariable was dispatched to is still the
\* manager's sessionState: a later paused or resumed notification replaces
\* the object, and what the suspended handler then writes to its frame is
\* written to an object nothing else reads.  Of its frame the handler keeps
\* what it still uses: the position in stackFrames (fidx), the call frame
\* id whose scope chain it reads, the instruction address, and the call
\* frame id of stackFrames[0] (frame0).
Task(kind) ==
    [kind |-> kind, pc |-> 0, file |-> <<>>, line |-> Num(0), rawIds |-> <<>>,
     scriptId |-> "", expr |-> "", live |-> FALSE, fidx |-> 0,
     callFrameId |-> "", instruction |-> 0, frame0 |-> "",
     variable |-> NoVariable, reqs |-> <<>>, navigated |-> FALSE]

\* `tasks` is the bag of suspended handlers: the gateway may answer them in
\* any order
Suspended    == BagToSet(tasks)
Without(t)   == tasks (-) SetToBag({t})
With(ts, t)  == ts (+) SetToBag({t})
InFlight     == BagCardinality(tasks)
Count(kind)  ==
    BagCardinality([t \in {u \in Suspended : u.kind = kind} |-> tasks[t]])

\* the PausedSessionState object is replaced: its suspended handlers go on
\* with the old object
Detached(t) == [t EXCEPT !.live = FALSE, !.fidx = 0]
Detach ==
    [d \in {Detached(t) : t \in Suspended} |->
        (IF d \in Suspended THEN tasks[d] ELSE 0)
        + LET L == {t \in Suspended : t.live /\ Detached(t) = d}
              c[S \in SUBSET L] ==
                  IF S = {} THEN 0
                  ELSE LET t == CHOOSE u \in S : TRUE IN tasks[t] + c[S \ {t}]
          IN  c[L]]

\* `navigated` tells of the handler of a script-loaded notification whether
\* a page-navigated notification has been handled since it was suspended.
\* The program keeps no such mark: it is what an observer of the
\* notifications knows.
Outdated(t) == IF t.kind = "onScriptLoaded" THEN [t EXCEPT !.navigated = TRUE] ELSE t
Leave ==
    [d \in {Outdated(t) : t \in Suspended} |->
        LET L == {t \in Suspended : Outdated(t) = d}
            c[S \in SUBSET L] ==
                IF S = {} THEN 0
                ELSE LET t == CHOOSE u \in S : TRUE IN tasks[t] + c[S \ {t}]
        IN  c[L]]

\* gateway requests
Request(method, params) == [method |-> method, params |-> params]

\* -------------------------------------------- gateway notification handlers
\* DebugSessionManager.onPaused: one RuntimeStackFrame per call frame
\* a frame that takes the file of the debug information and keeps the raw line
StackFrameOf_RawLine(srcs, v, i) ==
    LET dwarfLocation == findFileFromLocation(srcs, v.location)
    IN  [frame |-> v,
         stack |-> [index |-> i,
                    name |-> v.functionName,
                    instruction |-> v.location.columnNumber,
                    file |-> IF dwarfLocation.found
                             THEN StrOr(dwarfLocation.file, v.url) ELSE v.url,
                    line |-> v.location.lineNumber],
         state |-> FALSE]
StackFrameOf(srcs, v, i) ==
    LET dwarfLocation == findFileFromLocation(srcs, v.location)
    IN  [frame |-> v,
         stack |-> [index |-> i,
                    name |-> v.functionName,
                    instruction |-> v.location.columnNumber,
                    file |-> IF dwarfLocation.found
                             THEN StrOr(dwarfLocation.file, v.url) ELSE v.url,
                    line |-> IF dwarfLocation.found
                             THEN NumOr(dwarfLocation.line, v.location.lineNumber)
                             ELSE v.location.lineNumber],
         state |-> FALSE]

StoppedEvent == [event |-> "stopped", reason |-> "BreakPointMapping", threadId |-> 1]

\* an onPaused that notifies the sink only when the session was running
onPaused_OncePerTransition(callFrames) ==
    /\ sessionState' = PausedSessionState(
           [i \in DOMAIN callFrames |-> StackFrameOf(sources, callFrames[i], i - 1)])
    /\ tasks' = Detach
    /\ last' = Step("onPaused", <<callFrames>>, Void, <<>>,
                    IF sessionState.mode = "Running" THEN <<StoppedEvent>> ELSE <<>>,
                    "Hit BreakPointMapping")
    /\ UNCHANGED <<sources, breakPoints, gateway>>
onPaused(callFrames) ==
    /\ sessionState' = PausedSessionState(
           [i \in DOMAIN callFrames |-> StackFrameOf(sources, callFrames[i], i - 1)])
    /\ tasks' = Detach
    /\ last' = Step("onPaused", <<callFrames>>, Void, <<>>, <<StoppedEvent>>, "Hit BreakPointMapping")
    /\ UNCHANGED <<sources, breakPoints, gateway>>

onResumed ==
    /\ sessionState' = NormalSessionState
    /\ tasks' = Detach
    /\ last' = Step("onResumed", <<>>, Void, <<>>, <<>>, "")
    /\ UNCHANGED <<sources, breakPoints, gateway>>

\* DebugSessionManager.onLoad -> DebugSession.reset
\* a reset that frees the modules and keeps the list
reset_Keeping == sources' = sources
reset == sources' = <<>>

\* the calls of item.free() reset makes, in their order
\* a loop that stops before the last module
free_AllButLast == [i \in 1..(Len(sources) - 1) |-> sources[i].container]
free == [i \in DOMAIN sources |-> sources[i].container]

\* an onLoad that also leaves the Paused mode
onLoad_Resuming ==
    /\ reset
    /\ sessionState' = NormalSessionState
    /\ last' = [Step("onLoad", <<>>, Void, <<>>, <<>>, "Page navigated.")
                   EXCEPT !.freed = free]
    /\ tasks' = Leave
    /\ UNCHANGED <<breakPoints, gateway>>
onLoad ==
    /\ reset
    /\ last' = [Step("onLoad", <<>>, Void, <<>>, <<>>, "Page navigated.")
                   EXCEPT !.freed = free]
    /\ tasks' = Leave
    /\ UNCHANGED <<breakPoints, sessionState, gateway>>

\* DebugSessionManager.onScriptLoaded up to the await of getScriptSource
onScriptLoaded(scriptId) ==
    IF ScriptLanguage(scriptId) = "WebAssembly"
    THEN /\ InFlight < MaxTasks
         /\ Len(sources) + Count("onScriptLoaded") < MaxModules
         /\ tasks' = With(tasks,
                [Task("onScriptLoaded") EXCEPT
                    !.scriptId = scriptId,
                    !.reqs = <<Request("Debugger.getScriptSource", <<scriptId>>)>>])
         /\ last' = Step("onScriptLoaded", <<scriptId>>, Pending,
                         <<Request("Debugger.getScriptSource", <<scriptId>>)>>,
                         <<>>, "Start Loading")
         /\ UNCHANGED <<sources, breakPoints, sessionState, gateway>>
    ELSE /\ last' = Step("onScriptLoaded", <<scriptId>>, Void, <<>>, <<>>, "")
         /\ UNCHANGED <<sources, breakPoints, sessionState, tasks, gateway>>

\* read_dwarf(bytecode): a handle no registered module holds
read_dwarf == Len(sources) + 1

\* DebugSession.loadedWebAssembly
loadedWebAssembly(wasm) == sources' = Append(sources, wasm)

\* onScriptLoaded after getScriptSource answered: read_dwarf and register
onScriptLoadedReturn(t, ok) ==
    /\ t \in Suspended
    /\ t.kind = "onScriptLoaded"
    /\ tasks' = Without(t)
    /\ IF ok
       THEN /\ loadedWebAssembly(WebAssemblyFile(t.scriptId, read_dwarf))
            /\ last' = Step("onScriptLoaded.return", <<t.scriptId>>, Void, t.reqs, <<>>,
                            "Found Source")
       ELSE /\ UNCHANGED sources
            /\ last' = Step("onScriptLoaded.return", <<t.scriptId>>, Throw("GatewayFailure"),
                            t.reqs, <<>>, "")
    /\ UNCHANGED <<breakPoints, sessionState, gateway>>

\* ------------------------------------------------------ NormalSessionState
\* Every method warns 'Debugger not paused!' and returns its sentinel.
NotPaused == "Debugger not paused!"

Normal_stepOver(op)        == Step(op, <<>>, Void, <<>>, <<>>, NotPaused)
Normal_stepOut(op)         == Step(op, <<>>, Void, <<>>, <<>>, NotPaused)
Normal_continue(op)        == Step(op, <<>>, Void, <<>>, <<>>, NotPaused)
Normal_getStackFrames(op)  == Step(op, <<>>, Array(<<>>), <<>>, <<>>, NotPaused)
Normal_showLine(op)        == Step(op, <<>>, Void, <<>>, <<>>, NotPaused)
Normal_listVariable(op)    == Step(op, <<>>, Array(<<>>), <<>>, <<>>, NotPaused)
\* a dumpVariable that reads memory although nothing is paused
Normal_dumpVariable_Reading(op, expr) ==
    Step(op, <<expr>>, Undefined,
         <<Request("Debugger.evaluateOnCallFrame", <<>>)>>, <<>>, NotPaused)
Normal_dumpVariable(op, expr)     == Step(op, <<expr>>, Undefined, <<>>, <<>>, NotPaused)
Normal_setFocusedFrame(op, index) == Step(op, <<index>>, Void, <<>>, <<>>, NotPaused)

\* ------------------------------------------------------ PausedSessionState
\* The step and resume controls send one request and return nothing once it
\* is answered; nothing of the session is read or written after the await.
Paused_stepOver(op) ==
    Step(op, <<>>, Void, <<Request("Debugger.stepOver", <<>>)>>, <<>>, "")
Paused_stepOut(op) ==
    Step(op, <<>>, Void, <<Request("Debugger.stepOut", <<>>)>>, <<>>, "")
Paused_continue(op) ==
    Step(op, <<>>, Void, <<Request("Debugger.resume", <<>>)>>, <<>>, "")

Paused_getStackFrames(op) ==
    Step(op, <<>>, Array([i \in DOMAIN sessionState.stackFrames |->
                        sessionState.stackFrames[i].stack]), <<>>, <<>>, "")

\* this.stackFrames[this.selectedFrameIndex]: undefined outside the array
HasFocusedFrame == sessionState.selectedFrameIndex + 1 \in DOMAIN sessionState.stackFrames
FocusedFrame    == sessionState.stackFrames[sessionState.selectedFrameIndex + 1]
TypeError       == Throw("TypeError")

Paused_showLine(op) ==
    IF ~HasFocusedFrame THEN Step(op, <<>>, TypeError, <<>>, <<>>, "")
    ELSE IF FocusedFrame.stack.file \in ExistingFiles
         THEN Step(op, <<>>, Void, <<>>, <<>>, "->")
         ELSE Step(op, <<>>, Void, <<>>, <<>>, "not available.")

Paused_listVariable(op) ==
    IF ~HasFocusedFrame THEN Step(op, <<>>, TypeError, <<>>, <<>>, "")
    ELSE LET varlist == getVariablelistFromAddress(sources, FocusedFrame.stack.instruction)
         IN  IF varlist = <<>>
             THEN Step(op, <<>>, Array(<<>>), <<>>, <<>>, "not available.")
             ELSE Step(op, <<>>, Array(varlist), <<>>, <<>>, "")

\* ------------------------------------- DebugSessionManager command dispatch
Running == sessionState.mode = "Running"

Quiet == UNCHANGED <<sources, breakPoints, sessionState, tasks, gateway>>

stepOver ==
    /\ last' = IF Running THEN Normal_stepOver("stepOver") ELSE Paused_stepOver("stepOver")
    /\ Quiet

\* DebugSessionManager.stepIn calls sessionState.stepOver()
stepIn ==
    /\ last' = IF Running THEN Normal_stepOver("stepIn") ELSE Paused_stepOver("stepIn")
    /\ Quiet

stepOut ==
    /\ last' = IF Running THEN Normal_stepOut("stepOut") ELSE Paused_stepOut("stepOut")
    /\ Quiet

continue ==
    /\ last' = IF Running THEN Normal_continue("continue") ELSE Paused_continue("continue")
    /\ Quiet

getStackFrames ==
    /\ last' = IF Running THEN Normal_getStackFrames("getStackFrames")
               ELSE Paused_getStackFrames("getStackFrames")
    /\ Quiet

\* a setFocusedFrame that ignores an index outside the stack
setFocusedFrame_Checked(index) ==
    /\ IF Running
       THEN /\ last' = Normal_setFocusedFrame("setFocusedFrame", index)
            /\ UNCHANGED sessionState
       ELSE /\ last' = Step("setFocusedFrame", <<index>>, Void, <<>>, <<>>, "")
            /\ sessionState' =
                   IF index + 1 \in DOMAIN sessionState.stackFrames
                   THEN [sessionState EXCEPT !.selectedFrameIndex = index]
                   ELSE sessionState
    /\ UNCHANGED <<sources, breakPoints, tasks, gateway>>

setFocusedFrame(index) ==
    /\ IF Running
       THEN /\ last' = Normal_setFocusedFrame("setFocusedFrame", index)
            /\ UNCHANGED sessionState
       ELSE /\ last' = Step("setFocusedFrame", <<index>>, Void, <<>>, <<>>, "")
            /\ sessionState' = [sessionState EXCEPT !.selectedFrameIndex = index]
    /\ UNCHANGED <<sources, breakPoints, tasks, gateway>>

showLine ==
    /\ last' = IF Running THEN Normal_showLine("showLine") ELSE Paused_showLine("showLine")
    /\ Quiet

listVariable ==
    /\ last' = IF Running THEN Normal_listVariable("listVariable")
               ELSE Paused_listVariable("listVariable")
    /\ Quiet

\* ------------------------------------------- PausedSessionState.dumpVariable
\* createWasmValueStore reads the scope chain in five getProperties
\* round-trips (scope 0, its first value, scope 1, scope 2, its globals).
\* Between them the handler touches nothing of the session, so the model
\* suspends it once: the first request leaves with the call, the other four
\* are recorded when the store is complete.
StoreReads == 5
StorePc    == 1
EvalPc     == 2

GetProperties(t, n) == Request("Runtime.getProperties", <<t.callFrameId, n>>)

\* an evaluateMemory that evaluates on the focused frame
EvaluateMemory_OnFocusedFrame(t, w) ==
    Request("Debugger.evaluateOnCallFrame",
            <<t.callFrameId, w.address, w.address + w.byte_size>>)

\* evaluateMemory(address, size): the slice [address, address + size) of
\* memory 0, evaluated on the call frame of this.stackFrames[0]
EvaluateMemory(t, w) ==
    Request("Debugger.evaluateOnCallFrame",
            <<t.frame0, w.address, w.address + w.byte_size>>)

\* a dumpVariable that reads the memory before it looks at the descriptor
Resolve_ReadingFirst(op, rest, t) ==
    LET wasmVariable == getVariableValue(sources, t.expr, t.instruction)
        reqs == Append(t.reqs, EvaluateMemory(t, wasmVariable))
    IN  IF ~wasmVariable.found
        THEN /\ tasks' = rest
             /\ last' = Step(op, <<t.expr, t.instruction>>, Undefined, reqs, <<>>,
                             "not available.")
        ELSE /\ BagCardinality(rest) < MaxTasks
             /\ tasks' = With(rest, [t EXCEPT !.pc = EvalPc, !.reqs = reqs,
                                              !.variable = wasmVariable])
             /\ last' = Step(op, <<t.expr, t.instruction>>, Pending, reqs, <<>>, "")

\* dumpVariable from getVariableValue on: `rest` are the other suspended
\* handlers, t is this command
Resolve(op, rest, t) ==
    LET wasmVariable == getVariableValue(sources, t.expr, t.instruction)
    IN  IF ~wasmVariable.found
        THEN /\ tasks' = rest
             /\ last' = Step(op, <<t.expr, t.instruction>>, Undefined, t.reqs, <<>>,
                             "not available.")
        ELSE LET reqs == Append(t.reqs, EvaluateMemory(t, wasmVariable))
             IN  /\ BagCardinality(rest) < MaxTasks
                 /\ BagCardinality([u \in {v \in BagToSet(rest) :
                                               v.kind = "dumpVariable"} |-> rest[u]])
                        < MaxDumps
                 /\ tasks' = With(rest, [t EXCEPT !.pc = EvalPc, !.reqs = reqs,
                                                  !.variable = wasmVariable])
                 /\ last' = Step(op, <<t.expr, t.instruction>>, Pending, reqs, <<>>, "")

Paused_dumpVariable(expr) ==
    IF ~HasFocusedFrame
    THEN /\ last' = Step("dumpVariable", <<expr>>, TypeError, <<>>, <<>>, "")
         /\ UNCHANGED tasks
    ELSE LET frame == FocusedFrame
             t == [Task("dumpVariable") EXCEPT
                      !.expr = expr, !.live = TRUE,
                      !.fidx = sessionState.selectedFrameIndex + 1,
                      !.callFrameId = frame.frame.callFrameId,
                      !.instruction = frame.stack.instruction,
                      !.frame0 = sessionState.stackFrames[1].frame.callFrameId]
         IN  IF ~frame.state
             THEN LET reqs == <<GetProperties(t, 1)>>
                  IN  /\ InFlight < MaxTasks
                      /\ Count("dumpVariable") < MaxDumps
                      /\ tasks' = With(tasks, [t EXCEPT !.pc = StorePc, !.reqs = reqs])
                      /\ last' = Step("dumpVariable", <<expr, t.instruction>>, Pending,
                                      reqs, <<>>, "")
             ELSE Resolve("dumpVariable", tasks, t)

dumpVariable(expr) ==
    /\ IF Running
       THEN /\ last' = Normal_dumpVariable("dumpVariable", expr)
            /\ UNCHANGED tasks
       ELSE Paused_dumpVariable(expr)
    /\ UNCHANGED <<sources, breakPoints, sessionState, gateway>>

\* the getProperties round-trips of createWasmValueStore answered
createWasmValueStoreReturn(t, ok) ==
    /\ t \in Suspended
    /\ t.kind = "dumpVariable"
    /\ t.pc = StorePc
    /\ IF ~ok
       THEN /\ tasks' = Without(t)
            /\ last' = Step("dumpVariable.store", <<t.expr, t.instruction>>,
                            Throw("GatewayFailure"),
                            t.reqs, <<>>, "")
            /\ UNCHANGED sessionState
       ELSE \* frame.state = the store just built
            /\ sessionState' =
                   IF t.live
                   THEN [sessionState EXCEPT !.stackFrames[t.fidx].state = TRUE]
                   ELSE sessionState
            /\ Resolve("dumpVariable.store", Without(t),
                       [t EXCEPT !.reqs = @ \o [n \in 1..(StoreReads - 1) |->
                                                   GetProperties(t, n + 1)]])
    /\ UNCHANGED <<sources, breakPoints, gateway>>

\* evaluateOnCallFrame answered: set_memory_slice and print
evaluateMemoryReturn(t, ok) ==
    /\ t \in Suspended
    /\ t.kind = "dumpVariable"
    /\ t.pc = EvalPc
    /\ tasks' = Without(t)
    /\ last' = Step("dumpVariable.eval", <<t.expr, t.instruction>>,
                    IF ok THEN Value(t.variable) ELSE Throw("GatewayFailure"),
                    t.reqs, <<>>, "")
    /\ UNCHANGED <<sources, breakPoints, sessionState, gateway>>

\* ------------------------------------------------------ breakpoint registry
RuntimeBreakPoint(id, rawId, file, line) ==
    [id |-> id, rawId |-> rawId, file |-> file, line |-> line]

\* ids and paths a user passes to the removal commands
Ids   == {NegInfinity, NaN, Num(1)}
Paths == {<<"a">>, <<"5">>}
Urls  == {<<"u">>}

\* Math.max.apply(null, this.breakPoints.map(x => x.id)) + 1
NewBreakPointId(bps) == PlusOne(MathMax([i \in DOMAIN bps |-> bps[i].id]))

\* fileInfo.length < 2
\* a check that lets a location without separator through
MalformedLocation_OffByOne(fileInfo) == Len(fileInfo) < 1
MalformedLocation(fileInfo) == Len(fileInfo) < 2

\* DebugSessionManager.setBreakPoint up to the await of debugger.setBreakpoint
setBreakPoint(location) ==
    LET fileInfo == Split(location)
    IN  IF MalformedLocation(fileInfo)
        THEN /\ last' = Step("setBreakPoint", <<location>>, Value([verified |-> FALSE]),
                             <<>>, <<>>, "")
             /\ Quiet
        ELSE LET debugfilename == fileInfo[1]
                 debugline == NumberAt(fileInfo, 2)
                 wasmLocation == findAddressFromFileLocation(sources, debugfilename, debugline)
                 reqs == <<Request("Debugger.setBreakpoint",
                                   IF wasmLocation.found
                                   THEN <<wasmLocation.scriptId, wasmLocation.line,
                                          wasmLocation.column>>
                                   ELSE <<>>)>>
             IN  /\ InFlight < MaxTasks
                 /\ Len(breakPoints) + Count("setBreakPoint") < MaxBps
                 /\ gateway.nextId + Count("setBreakPoint") <= MaxRaw
                 /\ tasks' = With(tasks, [Task("setBreakPoint") EXCEPT
                                               !.file = debugfilename,
                                               !.line = debugline,
                                               !.reqs = reqs])
                 /\ last' = Step("setBreakPoint", <<location>>, Pending, reqs, <<>>, "")
                 /\ UNCHANGED <<sources, breakPoints, sessionState, gateway>>

\* a setBreakPoint that records the breakpoint whatever the gateway answered
setBreakPointReturn_RecordingAnyway(t, ok) ==
    /\ t \in Suspended
    /\ t.kind = "setBreakPoint"
    /\ tasks' = Without(t)
    /\ LET bp == gateway.nextId
           bpID == NewBreakPointId(breakPoints)
       IN  /\ gateway' = IF ok THEN [breakpoints |-> gateway.breakpoints \cup {bp},
                                     nextId |-> bp + 1]
                         ELSE gateway
           /\ breakPoints' = Append(breakPoints,
                  RuntimeBreakPoint(bpID, bp, t.file, t.line))
           /\ last' = Step("setBreakPoint.return", <<t.file, t.line>>,
                           IF ok THEN Value([id |-> bpID, line |-> t.line,
                                             verified |-> TRUE])
                           ELSE Throw("GatewayFailure"),
                           t.reqs, <<>>, "")
    /\ UNCHANGED <<sources, sessionState>>

\* setBreakPoint after debugger.setBreakpoint answered
setBreakPointReturn(t, ok) ==
    /\ t \in Suspended
    /\ t.kind = "setBreakPoint"
    /\ tasks' = Without(t)
    /\ IF ok
       THEN LET bp == gateway.nextId
                bpID == NewBreakPointId(breakPoints)
            IN  /\ gateway' = [breakpoints |-> gateway.breakpoints \cup {bp},
                               nextId |-> bp + 1]
                /\ breakPoints' = Append(breakPoints,
                       RuntimeBreakPoint(bpID, bp, t.file, t.line))
                /\ last' = Step("setBreakPoint.return", <<t.file, t.line>>,
                                Value([id |-> bpID, line |-> t.line,
                                       verified |-> TRUE]),
                                t.reqs, <<>>, "")
       ELSE /\ UNCHANGED <<gateway, breakPoints>>
            /\ last' = Step("setBreakPoint.return", <<t.file, t.line>>, Throw("GatewayFailure"),
                            t.reqs, <<>>, "")
    /\ UNCHANGED <<sources, sessionState>>

\* a removal that unregisters only the first matching record
Remove_FirstOnly(op, arg, matched, kept) ==
    LET reqs == IF matched = <<>> THEN <<>>
                ELSE <<Request("Debugger.removeBreakpoint", <<matched[1].rawId>>)>>
    IN  /\ breakPoints' = kept
        /\ IF matched = <<>>
           THEN /\ last' = Step(op, <<arg>>, Void, <<>>, <<>>, "")
                /\ UNCHANGED tasks
           ELSE /\ InFlight < MaxTasks
                /\ tasks' = With(tasks, [Task(op) EXCEPT
                               !.rawIds = <<matched[1].rawId>>, !.reqs = reqs])
                /\ last' = Step(op, <<arg>>, Pending, reqs, <<>>, "")
        /\ UNCHANGED <<sources, sessionState, gateway>>

\* the shared body of removeBreakPoint and removeAllBreakPoints, given the
\* records the first filter matched and those the second filter kept: one
\* removeBreakpoint request per matching record, all sent before the
\* registry is replaced and before the first await
Remove(op, arg, matched, kept) ==
    LET reqs == [i \in DOMAIN matched |->
                    Request("Debugger.removeBreakpoint", <<matched[i].rawId>>)]
    IN  /\ breakPoints' = kept
        /\ IF matched = <<>>
           THEN /\ last' = Step(op, <<arg>>, Void, <<>>, <<>>, "")
                /\ UNCHANGED tasks
           ELSE /\ InFlight < MaxTasks
                /\ tasks' = With(tasks, [Task(op) EXCEPT
                               !.rawIds = [i \in DOMAIN matched |-> matched[i].rawId],
                               !.reqs = reqs])
                /\ last' = Step(op, <<arg>>, Pending, reqs, <<>>, "")
        /\ UNCHANGED <<sources, sessionState, gateway>>

\* a removeBreakPoint that drops the records and tells the gateway nothing
removeBreakPoint_LocalOnly(id) ==
    /\ breakPoints' = SelectSeq(breakPoints, LAMBDA x : ~NumEq(x.id, id))
    /\ last' = Step("removeBreakPoint", <<id>>, Void, <<>>, <<>>, "")
    /\ UNCHANGED <<sources, sessionState, tasks, gateway>>

\* filter(x => x.id == id) and filter(x => x.id != id)
removeBreakPoint(id) ==
    Remove("removeBreakPoint", id,
           SelectSeq(breakPoints, LAMBDA x : NumEq(x.id, id)),
           SelectSeq(breakPoints, LAMBDA x : ~NumEq(x.id, id)))

\* filter(x => x.file == path) and filter(x => x.file != path)
removeAllBreakPoints(path) ==
    Remove("removeAllBreakPoints", path,
           SelectSeq(breakPoints, LAMBDA x : x.file = path),
           SelectSeq(breakPoints, LAMBDA x : x.file # path))

\* a removal that swallows the rejection of its requests
removeBreakPointReturn_Swallowing(t, failed) ==
    /\ t \in Suspended
    /\ t.kind \in {"removeBreakPoint", "removeAllBreakPoints"}
    /\ failed \subseteq DOMAIN t.rawIds
    /\ tasks' = Without(t)
    /\ gateway' = [gateway EXCEPT !.breakpoints =
                      @ \ {t.rawIds[j] : j \in DOMAIN t.rawIds \ failed}]
    /\ last' = Step(t.kind \o ".return", <<>>, Void, t.reqs, <<>>, "")
    /\ UNCHANGED <<sources, breakPoints, sessionState>>

\* await Promise.all(promises): the requests in `failed` are rejected by the
\* gateway, the others remove their breakpoint
removeBreakPointReturn(t, failed) ==
    /\ t \in Suspended
    /\ t.kind \in {"removeBreakPoint", "removeAllBreakPoints"}
    /\ failed \subseteq DOMAIN t.rawIds
    /\ tasks' = Without(t)
    /\ gateway' = [gateway EXCEPT !.breakpoints =
                      @ \ {t.rawIds[j] : j \in DOMAIN t.rawIds \ failed}]
    /\ last' = Step(t.kind \o ".return", <<>>,
                    IF failed = {} THEN Void ELSE Throw("GatewayFailure"),
                    t.reqs, <<>>, "")
    /\ UNCHANGED <<sources, breakPoints, sessionState>>

getBreakPointsList(location) ==
    LET fileInfo == Split(location)
    IN  /\ last' =
              IF MalformedLocation(fileInfo)
              THEN Step("getBreakPointsList", <<location>>, Array(<<>>), <<>>, <<>>, "")
              ELSE LET debugfilename == fileInfo[1]
                       debugline == NumberAt(fileInfo, 2)
                       found == SelectSeq(breakPoints, LAMBDA x :
                                    x.file = debugfilename /\ NumEq(x.line, debugline))
                   IN  Step("getBreakPointsList", <<location>>,
                            Array([i \in DOMAIN found |->
                                      [id |-> found[i].id, rawId |-> found[i].rawId,
                                       file |-> found[i].file, line |-> found[i].line,
                                       verified |-> TRUE]]),
                            <<>>, <<>>, "")
        /\ Quiet

jumpToPage(url) ==
    /\ last' = Step("jumpToPage", <<url>>, Void,
                    <<Request("Page.navigate", <<url>>)>>, <<>>, "")
    /\ Quiet

\* -------------------------------------------------------------- behaviours
\* What the gateway answers: TRUE for a result, FALSE for a failed round-trip
Outcomes == BOOLEAN

\* The commands of the session state machine and the continuations of
\* dumpVariable, for expressions drawn from E and gateway answers from O
SessionCommands(E, O) ==
    \/ stepOver
    \/ stepIn
    \/ stepOut
    \/ continue
    \/ getStackFrames
    \/ \E index \in 0..MaxFrames : setFocusedFrame(index)
    \/ showLine
    \/ listVariable
    \/ \E expr \in E : dumpVariable(expr)
    \/ \E t \in Suspended, ok \in O : createWasmValueStoreReturn(t, ok)
    \/ \E t \in Suspended, ok \in O : evaluateMemoryReturn(t, ok)
    \/ \E url \in Urls : jumpToPage(url)

\* The commands of the breakpoint registry, for locations drawn from L (to
\* set) and G (to list), ids from I, paths from P and gateway answers from O
BreakPointCommands(L, G, I, P, O) ==
    \/ \E location \in L : setBreakPoint(location)
    \/ \E t \in Suspended, ok \in O : setBreakPointReturn(t, ok)
    \/ \E id \in I : removeBreakPoint(id)
    \/ \E path \in P : removeAllBreakPoints(path)
    \/ \E t \in Suspended :
          \E failed \in (IF FALSE \in O THEN SUBSET (1..MaxBps) ELSE {{}}) :
              removeBreakPointReturn(t, failed)
    \/ \E location \in G : getBreakPointsList(location)

\* Script-loaded and page-navigated notifications, for scripts drawn from S
ModuleNotifications(S, O) ==
    \/ \E scriptId \in S : onScriptLoaded(scriptId)
    \/ \E t \in Suspended, ok \in O : onScriptLoadedReturn(t, ok)
    \/ onLoad

\* Paused and resumed notifications, for call frames drawn from F
ModeNotifications(F) ==
    \/ \E callFrames \in F : onPaused(callFrames)
    \/ onResumed

\* Locations with a ':' the breakpoint commands are given: a line the debug
\* information knows (a:5), another file (5:5), a line that is no number
\* (a:a) and a second separator (a:5:)
Locations ==
    { <<"a", ":", "5">>, <<"5", ":", "5">>, <<"a", ":", "a">>,
      <<"a", ":", "5", ":">> }
Malformed(n) == {l \in Strings(n) : \A i \in DOMAIN l : l[i] # ":"}

\* The breakpoint registry with every location string without ':' up to
\* MaxLen
NextBreakPoints ==
    \/ BreakPointCommands(Locations \cup Malformed(MaxLen),
                          Locations \cup {FileA}, Ids, Paths, Outcomes)
    \/ ModuleNotifications(ScriptIds, Outcomes)

SpecBreakPoints == Init /\ [][NextBreakPoints]_vars

\* The breakpoint registry with a gateway that answers every request
NextMirror ==
    \/ BreakPointCommands(Locations, {<<"a", ":", "5">>}, Ids, Paths, {TRUE})
    \/ ModuleNotifications({"s1"}, {TRUE})

SpecMirror == Init /\ [][NextMirror]_vars

\* The session state machine with every call-frame list up to MaxFrames
NextSession ==
    \/ SessionCommands(Exprs, Outcomes)
    \/ ModeNotifications(CallFrameLists)
    \/ ModuleNotifications({"s1", "j1"}, Outcomes)

SpecSession == Init /\ [][NextSession]_vars

\* The whole manager: every command and every notification, with a gateway
\* that answers every request, one location of each shape, one script and
\* the innermost frame of the chain
Next ==
    \/ SessionCommands({"x"}, {TRUE})
    \/ BreakPointCommands({<<"a", ":", "5">>, FileA}, {<<"a", ":", "5">>},
                          {NegInfinity}, {FileA}, {TRUE})
    \/ ModuleNotifications({"s1"}, {TRUE})
    \/ ModeNotifications({<<CallChain[1]>>})

Spec == Init /\ [][Next]_vars

\* ------------------------------------------------------------- properties
WorkflowDumpCommands ==
    {"stepOver", "stepIn", "stepOut", "continue", "getStackFrames",
     "setFocusedFrame", "showLine", "listVariable", "dumpVariable"}

\* what a command answers when nothing is paused
NotPausedSentinel(op) ==
    IF op \in {"getStackFrames", "listVariable"} THEN Array(<<>>)
    ELSE IF op = "dumpVariable" THEN Undefined
    ELSE Void

\* C1: a workflow or dump command dispatched while the session is Running
\* returns its 'not paused' sentinel (nothing, an empty list, undefined),
\* sends no gateway request and suspends nothing.
C1_RunningCommandsAreNoOps ==
    [][ (Running /\ last'.op \in WorkflowDumpCommands) =>
            /\ last'.ret = NotPausedSentinel(last'.op)
            /\ last'.reqs = <<>>
            /\ last'.log = NotPaused
            /\ UNCHANGED <<sources, breakPoints, sessionState, tasks, gateway>> ]_vars

\* a dumpVariable answered undefined while modules are registered and the
\* session runs
C1_Witness ==
    /\ Running
    /\ sources # <<>>
    /\ last.op = "dumpVariable"
    /\ last.ret = Undefined
    /\ last.reqs = <<>>

\* C2: the session starts Running, is always in one of the two modes, and a
\* step changes the mode only when it is the paused handler (to Paused) or
\* the resumed handler (to Running); no command and no other notification
\* changes it.
C2_ModeChangesOnlyOnPauseResume ==
    /\ sessionState.mode = "Running"
    /\ [][ /\ sessionState'.mode \in {"Running", "Paused"}
           /\ (sessionState'.mode # sessionState.mode) =>
                  \/ last'.op = "onPaused" /\ sessionState'.mode = "Paused"
                  \/ last'.op = "onResumed" /\ sessionState'.mode = "Running" ]_vars

\* a page navigation handled while the session is Paused and a breakpoint
\* is registered
C2_Witness ==
    /\ sessionState.mode = "Paused"
    /\ breakPoints # <<>>
    /\ last.op = "onLoad"

\* does the module registered for the frame's script resolve its location
ModuleResolves(srcs, v) ==
    /\ \E i \in DOMAIN srcs : srcs[i].scriptID = v.location.scriptId
    /\ DwarfFindFile(v.location.scriptId, v.location.columnNumber).found

\* C3: a paused notification with N call frames builds N stack entries in
\* the same order, entry i with index i and the frame's function name, the
\* file and line of the debug information when the module of the frame's
\* script resolves the location and the raw url and line otherwise; in
\* Paused mode getStackFrames returns exactly these entries.
C3_StackFramesMirrorCallFrames ==
    [][ /\ (last'.op = "onPaused") =>
               LET callFrames == last'.arg[1]
                   fs == sessionState'.stackFrames
               IN  /\ Len(fs) = Len(callFrames)
                   /\ \A i \in DOMAIN callFrames :
                         LET v == callFrames[i]
                             d == DwarfFindFile(v.location.scriptId,
                                                v.location.columnNumber)
                         IN  /\ fs[i].stack.index = i - 1
                             /\ fs[i].stack.name = v.functionName
                             /\ fs[i].stack.file =
                                    IF ModuleResolves(sources, v) THEN d.file ELSE v.url
                             /\ fs[i].stack.line =
                                    IF ModuleResolves(sources, v) THEN d.line
                                    ELSE v.location.lineNumber
        /\ (last'.op = "getStackFrames" /\ ~Running) =>
               /\ last'.ret.t = "array"
               /\ Len(last'.ret.v) = Len(sessionState.stackFrames)
               /\ \A i \in DOMAIN sessionState.stackFrames :
                     last'.ret.v[i] = sessionState.stackFrames[i].stack ]_vars

\* getStackFrames answered with a source-mapped frame (a:5) above a raw
\* JavaScript frame (j:7)
C3_Witness ==
    /\ ~Running
    /\ last.op = "getStackFrames"
    /\ \E i, j \in DOMAIN last.ret.v :
          /\ i < j
          /\ last.ret.v[i].file = FileA /\ last.ret.v[i].line = Num(5)
          /\ last.ret.v[j].file = <<"j">> /\ last.ret.v[j].line = Num(7)

NoSeparator(location) == \A i \in DOMAIN location : location[i] # ":"

\* C4: setBreakPoint with a location without ':' returns verified=false
\* without an id, sends no gateway request, suspends nothing and leaves the
\* breakpoint registry as it was.
C4_MalformedLocationIsRejected ==
    [][ (last'.op = "setBreakPoint" /\ NoSeparator(last'.arg[1])) =>
            /\ last'.ret.t = "value"
            /\ DOMAIN last'.ret.v[1] = {"verified"}
            /\ ~last'.ret.v[1].verified
            /\ last'.reqs = <<>>
            /\ UNCHANGED <<breakPoints, gateway, tasks>> ]_vars

\* a location of MaxLen characters without ':' rejected while the registry
\* holds a breakpoint
C4_Witness ==
    /\ last.op = "setBreakPoint"
    /\ NoSeparator(last.arg[1])
    /\ Len(last.arg[1]) >= 2
    /\ last.ret.t = "value"
    /\ breakPoints # <<>>

\* C5: the id a successful setBreakPoint allocates is 1 for an empty
\* registry and otherwise max(existing ids) + 1, larger than every id in
\* the registry.
C5_IdsStrictlyIncreasing ==
    [][ (last'.op = "setBreakPoint.return" /\ last'.ret.t = "value") =>
            LET id == last'.ret.v[1].id
            IN  IF breakPoints = <<>> THEN id = Num(1)
                ELSE /\ id = PlusOne(MathMax([i \in DOMAIN breakPoints |->
                                                 breakPoints[i].id]))
                     /\ \A i \in DOMAIN breakPoints :
                           NumLess(breakPoints[i].id, id) ]_vars

SameLocation(x, y) == x.file = y.file /\ NumEq(x.line, y.line)

\* C6: two records at the same file:line have different ids, and
\* removeBreakPoint of the id of one keeps the other in the registry and
\* sends the gateway only the removed record's protocol id.
C6_DuplicatesIndependentlyRemovable ==
    [][ (last'.op = "removeBreakPoint") =>
            \A i, j \in DOMAIN breakPoints :
                (i # j /\ SameLocation(breakPoints[i], breakPoints[j])) =>
                    /\ ~NumEq(breakPoints[i].id, breakPoints[j].id)
                    /\ NumEq(breakPoints[i].id, last'.arg[1]) =>
                          /\ \E k \in DOMAIN breakPoints' :
                                breakPoints'[k] = breakPoints[j]
                          /\ last'.reqs = <<Request("Debugger.removeBreakpoint",
                                                    <<breakPoints[i].rawId>>)>> ]_vars

RemoveRequests(reqs, rawId) ==
    {r \in DOMAIN reqs : reqs[r] = Request("Debugger.removeBreakpoint", <<rawId>>)}

\* C7: removeBreakPoint(id) leaves no record with that id in the registry,
\* sends exactly one removeBreakpoint request for each record that carried
\* the id, with that record's protocol id, and none for a record with
\* another id, which stays in the registry.
C7_RemoveByIdUnregistersEachRecordOnce ==
    [][ (last'.op = "removeBreakPoint") =>
            LET id == last'.arg[1]
                hit == {i \in DOMAIN breakPoints : NumEq(breakPoints[i].id, id)}
            IN  /\ \A k \in DOMAIN breakPoints' : ~NumEq(breakPoints'[k].id, id)
                /\ Len(last'.reqs) = Cardinality(hit)
                /\ \A i \in hit :
                      Cardinality(RemoveRequests(last'.reqs, breakPoints[i].rawId)) = 1
                /\ \A i \in DOMAIN breakPoints \ hit :
                      /\ RemoveRequests(last'.reqs, breakPoints[i].rawId) = {}
                      /\ \E k \in DOMAIN breakPoints' :
                            breakPoints'[k] = breakPoints[i] ]_vars

\* removeBreakPoint with the id setBreakPoint returned, which two records
\* carried: two requests sent, the registry empty
C7_Witness ==
    /\ last.op = "removeBreakPoint"
    /\ last.arg[1] = NegInfinity
    /\ Len(last.reqs) = 2
    /\ last.reqs[1] # last.reqs[2]
    /\ breakPoints = <<>>

\* C8 as stated: a step sends one stopped notification if it takes the
\* session from Running to Paused and none otherwise.
C8_StoppedOncePerRunningToPaused ==
    [][ Len(last'.sent) =
            IF sessionState.mode = "Running" /\ sessionState'.mode = "Paused"
            THEN 1 ELSE 0 ]_vars

\* C8 amended: every handled paused notification, whether the session was
\* Running or already Paused, sends exactly one stopped notification, with
\* the session Paused on the stack of that notification and focused on
\* frame 0; no other step sends one.
C8_StoppedOncePerPausedNotification ==
    [][ IF last'.op = "onPaused"
        THEN /\ last'.sent = <<StoppedEvent>>
             /\ sessionState'.mode = "Paused"
             /\ sessionState'.selectedFrameIndex = 0
             /\ Len(sessionState'.stackFrames) = Len(last'.arg[1])
             /\ \A i \in DOMAIN last'.arg[1] :
                   sessionState'.stackFrames[i].frame = last'.arg[1][i]
        ELSE last'.sent = <<>> ]_vars

\* a paused notification with at least two call frames has been handled: one
\* stopped notification sent, the session Paused on that stack
C8_Witness ==
    /\ last.op = "onPaused"
    /\ last.sent = <<StoppedEvent>>
    /\ sessionState.mode = "Paused"
    /\ Len(sessionState.stackFrames) >= 2

\* C9 as stated: a page navigation while Paused clears the module list and
\* the stack, and a listVariable right after it answers an empty list
\* through the 'not paused' path.
C9_NavigationWhilePausedClearsStack ==
    [][ /\ (last'.op = "onLoad" /\ sessionState.mode = "Paused") =>
               /\ sources' = <<>>
               /\ sessionState'.stackFrames = <<>>
        /\ (last.op = "onLoad" /\ last'.op = "listVariable") =>
               /\ last'.ret = Array(<<>>)
               /\ last'.log = NotPaused ]_vars

\* C9 amended: a page navigation clears the module list and leaves the
\* session state (mode, stack, focus) as it was; while the session is
\* Paused and the module list is empty, listVariable on an existing focused
\* frame answers an empty list through the Paused implementation ('not
\* available.'), without a gateway request.
C9_NavigationWhilePausedKeepsStack ==
    [][ /\ (last'.op = "onLoad") =>
               /\ sources' = <<>>
               /\ sessionState' = sessionState
        /\ (last'.op = "listVariable" /\ ~Running /\ sources = <<>>
                /\ HasFocusedFrame) =>
               /\ last'.ret = Array(<<>>)
               /\ last'.log = "not available."
               /\ last'.reqs = <<>> ]_vars

\* listVariable answered 'not available.' in Paused mode on a frame that
\* was source-mapped when the session paused, the modules gone since
C9_Witness ==
    /\ ~Running
    /\ sources = <<>>
    /\ HasFocusedFrame
    /\ FocusedFrame.stack.file = FileA
    /\ last.op = "listVariable"
    /\ last.log = "not available."

\* no registered module resolves expr at the address
Unresolved(srcs, expr, address) ==
    \A i \in DOMAIN srcs : ~DwarfGetVariableInfo(srcs[i].scriptID, expr, address).found

NoEvaluate(reqs) ==
    \A r \in DOMAIN reqs : reqs[r].method # "Debugger.evaluateOnCallFrame"

\* C10: in Paused mode, when dumpVariable comes to resolve its expression
\* (with the cached store, or once the store is built) and no registered
\* module resolves it at the frame's instruction address, the command
\* returns undefined and none of the requests it has sent is an
\* evaluateOnCallFrame.
C10_UnresolvedDumpReadsNoMemory ==
    [][ (/\ \/ last'.op = "dumpVariable.store" /\ last'.ret.t # "throw"
            \/ /\ last'.op = "dumpVariable"
               /\ ~Running /\ HasFocusedFrame /\ FocusedFrame.state
         /\ Unresolved(sources, last'.arg[1], last'.arg[2])) =>
            /\ last'.ret = Undefined
            /\ NoEvaluate(last'.reqs)
            /\ last'.log = "not available." ]_vars

\* dumpVariable returned undefined after building the store, with a module
\* registered that does not resolve the expression at the frame's address
C10_Witness ==
    /\ last.op = "dumpVariable.store"
    /\ last.ret = Undefined
    /\ sources # <<>>
    /\ Len(last.reqs) = StoreReads

\* an earlier dumpVariable of this pause has cached the store of the focused
\* frame or is suspended in the reads that build it
StoreStarted ==
    \/ FocusedFrame.state
    \/ \E t \in Suspended :
          /\ t.kind = "dumpVariable"
          /\ t.live
          /\ t.pc = StorePc
          /\ t.fidx = sessionState.selectedFrameIndex + 1

NoGetProperties(reqs) ==
    \A r \in DOMAIN reqs : reqs[r].method # "Runtime.getProperties"

\* C11: within one pause the store of a stack frame is built at most once:
\* a dumpVariable on a frame for which an earlier dumpVariable of the same
\* pause has started the scope-chain reads (or has cached the store) sends
\* no getProperties request.
C11_StoreBuiltOncePerFrame ==
    [][ (last'.op = "dumpVariable" /\ ~Running /\ HasFocusedFrame /\ StoreStarted) =>
            NoGetProperties(last'.reqs) ]_vars

\* the protocol ids named by the requests of a removal
RawIdsOf(reqs) == {reqs[r].params[1] : r \in DOMAIN reqs}

\* C12: removeBreakPoint(id) and removeAllBreakPoints(file) drop the matching
\* records from the registry when they are called and leave the others as
\* they were, in their order; when the gateway has answered, the registry is
\* not touched again and holds none of the records the command removed,
\* also when a removeBreakpoint request was rejected (its protocol id is
\* still with the gateway), and the command fails exactly in that case.
C12_FailedRemovalIsNotRolledBack ==
    [][ /\ (last'.op \in {"removeBreakPoint", "removeAllBreakPoints"}) =>
               LET Matches(x) == IF last'.op = "removeBreakPoint"
                                 THEN NumEq(x.id, last'.arg[1])
                                 ELSE x.file = last'.arg[1]
               IN  breakPoints' = SelectSeq(breakPoints, LAMBDA x : ~Matches(x))
        /\ (last'.op \in {"removeBreakPoint.return", "removeAllBreakPoints.return"}) =>
               /\ breakPoints' = breakPoints
               /\ \A i \in DOMAIN breakPoints' :
                     breakPoints'[i].rawId \notin RawIdsOf(last'.reqs)
               /\ (last'.ret.t = "throw") =
                     (RawIdsOf(last'.reqs) \cap gateway'.breakpoints # {})
               /\ last'.ret.t \in {"throw", "void"} ]_vars

\* a removal has failed in the gateway: the protocol id it named is still
\* registered there, its record is gone and another record is still held
C12_Witness ==
    /\ last.op \in {"removeBreakPoint.return", "removeAllBreakPoints.return"}
    /\ last.ret.t = "throw"
    /\ RawIdsOf(last.reqs) \cap gateway.breakpoints # {}
    /\ breakPoints # <<>>
    /\ \A i \in DOMAIN breakPoints : breakPoints[i].rawId \notin RawIdsOf(last.reqs)

\* C13: setBreakPoint with a well-formed location changes neither registry
\* before the gateway has answered, and when the setBreakpoint round-trip
\* fails (the gateway has handed out no protocol id) the command fails, no
\* id is returned and both registries are as they were.
C13_FailedSetBreakPointChangesNothing ==
    [][ /\ (last'.op = "setBreakPoint" /\ ~NoSeparator(last'.arg[1])) =>
               /\ last'.ret = Pending
               /\ UNCHANGED <<breakPoints, sources, gateway>>
        /\ (last'.op = "setBreakPoint.return" /\ gateway'.nextId = gateway.nextId) =>
               /\ last'.ret.t = "throw"
               /\ UNCHANGED <<breakPoints, sources, gateway>> ]_vars

\* a setBreakPoint has failed in the gateway while the registry holds a
\* record and a module is registered
C13_Witness ==
    /\ last.op = "setBreakPoint.return"
    /\ last.ret.t = "throw"
    /\ breakPoints # <<>>
    /\ sources # <<>>

\* C14: a page-navigated notification frees the debug-info handle of every
\* registered module exactly once, leaves the module registry empty and the
\* breakpoint records as they were; no other step frees a handle.
C14_NavigationFreesEachModuleOnce ==
    [][ IF last'.op = "onLoad"
        THEN /\ Len(last'.freed) = Len(sources)
             /\ \A i \in DOMAIN sources :
                   Cardinality({j \in DOMAIN last'.freed :
                                   last'.freed[j] = sources[i].container}) = 1
             /\ sources' = <<>>
             /\ breakPoints' = breakPoints
        ELSE last'.freed = <<>> ]_vars

\* a navigation has freed MaxModules modules while the breakpoint registry
\* holds a record
C14_Witness ==
    /\ last.op = "onLoad"
    /\ Len(last.freed) >= 2
    /\ sources = <<>>
    /\ breakPoints # <<>>

\* setBreakPoint with a well-formed location sends one setBreakpoint request,
\* with the address a module resolves the location to or without address
\* fields, and suspends with the file and the parsed line; when the request
\* has succeeded it appends one record of that file and line with the
\* protocol id the gateway handed out and returns the record's id and line
\* with verified=true
SetBreakPointAppendsOneRecord ==
    /\ (last'.op = "setBreakPoint" /\ ~NoSeparator(last'.arg[1])) =>
           LET fileInfo == Split(last'.arg[1])
               wasmLocation == findAddressFromFileLocation(
                                   sources, fileInfo[1], Number(fileInfo[2]))
           IN  /\ Len(last'.reqs) = 1
               /\ last'.reqs[1].method = "Debugger.setBreakpoint"
               /\ last'.reqs[1].params =
                      IF wasmLocation.found
                      THEN <<wasmLocation.scriptId, 0, wasmLocation.column>>
                      ELSE <<>>
               /\ \E t \in BagToSet(tasks') :
                     /\ t.kind = "setBreakPoint"
                     /\ t.file = fileInfo[1]
                     /\ t.line = Number(fileInfo[2])
                     /\ tasks' = With(tasks, t)
    /\ (last'.op = "setBreakPoint.return" /\ last'.ret.t = "value") =>
           /\ Len(last'.reqs) = 1
           /\ Len(breakPoints') = Len(breakPoints) + 1
           /\ SubSeq(breakPoints', 1, Len(breakPoints)) = breakPoints
           /\ LET r == breakPoints'[Len(breakPoints')]
              IN  /\ r.file = last'.arg[1]
                  /\ r.line = last'.arg[2]
                  /\ r.rawId \in gateway'.breakpoints \ gateway.breakpoints
                  /\ last'.ret.v[1] = [id |-> r.id, line |-> r.line, verified |-> TRUE]

\* the id of the record a successful setBreakPoint appends is the id of no
\* record the registry held
AppendedIdIsFresh ==
    (last'.op = "setBreakPoint.return" /\ last'.ret.t = "value") =>
        \A i \in DOMAIN breakPoints :
            ~NumEq(breakPoints[i].id, breakPoints'[Len(breakPoints')].id)

\* C15: every setBreakPoint with a well-formed location sends exactly one
\* setBreakpoint request, resolved or not, and on success appends exactly
\* one record (file, parsed line, protocol id, fresh id) and returns
\* verified=true with that id and line.
C15_SetBreakPointAppendsFreshRecord ==
    [][ SetBreakPointAppendsOneRecord /\ AppendedIdIsFresh ]_vars

\* C16: a paused notification replaces the Paused state as a whole: the
\* stack is the one built from the notification's call frames, no frame has
\* a cached store, the focus is frame 0, and no dumpVariable suspended
\* since an earlier pause writes to the new state (a store that completes
\* changes the state only for a dumpVariable of the current pause, and only
\* the cache of its frame); a resumed notification leaves a Running state
\* without stack and focus.
C16_PauseReplacesPausedState ==
    [][ /\ (last'.op = "onPaused") =>
               /\ sessionState'.mode = "Paused"
               /\ sessionState'.selectedFrameIndex = 0
               /\ Len(sessionState'.stackFrames) = Len(last'.arg[1])
               /\ \A i \in DOMAIN sessionState'.stackFrames :
                     /\ sessionState'.stackFrames[i].frame = last'.arg[1][i]
                     /\ ~sessionState'.stackFrames[i].state
               /\ \A t \in BagToSet(tasks') : t.kind = "dumpVariable" => ~t.live
        /\ (last'.op = "onResumed") =>
               /\ sessionState' = NormalSessionState
               /\ \A t \in BagToSet(tasks') : t.kind = "dumpVariable" => ~t.live
        /\ (last'.op = "dumpVariable.store") =>
               \/ sessionState' = sessionState
               \/ \E t \in Suspended :
                     /\ t.kind = "dumpVariable" /\ t.pc = StorePc /\ t.live
                     /\ sessionState' =
                            [sessionState EXCEPT !.stackFrames[t.fidx].state = TRUE] ]_vars

\* a paused notification handled while a dumpVariable of an earlier pause
\* is still suspended
C16_Witness ==
    /\ last.op = "onPaused"
    /\ sessionState.stackFrames # <<>>
    /\ \E t \in Suspended : t.kind = "dumpVariable" /\ ~t.live /\ t.pc = StorePc

\* C17: in Paused mode setFocusedFrame(i) returns normally and makes i the
\* focus whatever the length of the stack; while the focus is outside the
\* stack, showLine, listVariable and dumpVariable fail with a TypeError on
\* the missing frame: no 'not available.' line, no gateway request, nothing
\* suspended and the session state as it was.
C17_FocusIsNotValidated ==
    [][ /\ (last'.op = "setFocusedFrame" /\ ~Running) =>
               /\ last'.ret = Void
               /\ sessionState' =
                      [sessionState EXCEPT !.selectedFrameIndex = last'.arg[1]]
        /\ (/\ last'.op \in {"showLine", "listVariable", "dumpVariable"}
            /\ ~Running
            /\ ~HasFocusedFrame) =>
               /\ last'.ret = TypeError
               /\ last'.log # "not available."
               /\ last'.reqs = <<>>
               /\ UNCHANGED <<sessionState, tasks>> ]_vars

\* dumpVariable has failed on a stack of at least one frame with the focus
\* behind its last frame
C17_Witness ==
    /\ last.op = "dumpVariable"
    /\ last.ret = TypeError
    /\ sessionState.stackFrames # <<>>
    /\ sessionState.selectedFrameIndex >= Len(sessionState.stackFrames)

EvaluateRequests(reqs) ==
    SelectSeq(reqs, LAMBDA r : r.method = "Debugger.evaluateOnCallFrame")

\* the one request evaluateMemory sends for the descriptor w
SliceOnFrame(callFrameId, w) ==
    <<Request("Debugger.evaluateOnCallFrame",
              <<callFrameId, w.address, w.address + w.byte_size>>)>>

\* C20: a dumpVariable in Paused mode works on the focused frame: its
\* instruction address is what the expression is resolved at and its call
\* frame is what the store is read from.  When the expression resolves to a
\* descriptor (address a, byte size s), with the cached store or once the
\* store is built, the command sends one evaluateOnCallFrame request for
\* the slice [a, a + s) on the call frame of stack frame 0 of its pause,
\* and it has sent no other evaluateOnCallFrame request when it returns.
C20_EvaluateReadsSliceOnFrameZero ==
    [][ LET w == getVariableValue(sources, last'.arg[1], last'.arg[2])
        IN
        /\ (last'.op = "dumpVariable" /\ ~Running /\ HasFocusedFrame) =>
               /\ last'.arg[2] = FocusedFrame.stack.instruction
               /\ ~FocusedFrame.state =>
                      /\ last'.reqs = <<Request("Runtime.getProperties",
                                                <<FocusedFrame.frame.callFrameId, 1>>)>>
                      /\ \E t \in BagToSet(tasks') :
                            /\ tasks' = With(tasks, t)
                            /\ t.pc = StorePc
                            /\ t.instruction = FocusedFrame.stack.instruction
                            /\ t.callFrameId = FocusedFrame.frame.callFrameId
                            /\ t.frame0 = sessionState.stackFrames[1].frame.callFrameId
               /\ (FocusedFrame.state /\ w.found) =>
                      /\ last'.ret = Pending
                      /\ last'.reqs =
                             SliceOnFrame(sessionState.stackFrames[1].frame.callFrameId, w)
        /\ (last'.op = "dumpVariable.store" /\ last'.ret.t # "throw" /\ w.found) =>
               /\ last'.ret = Pending
               /\ \E t \in Suspended :
                     /\ t.pc = StorePc
                     /\ t.expr = last'.arg[1]
                     /\ t.instruction = last'.arg[2]
                     /\ \E u \in BagToSet(tasks') :
                           u.pc = EvalPc /\ tasks' = With(Without(t), u)
                     /\ EvaluateRequests(last'.reqs) = SliceOnFrame(t.frame0, w)
                     /\ \A r \in DOMAIN last'.reqs :
                           last'.reqs[r].method = "Runtime.getProperties" =>
                               last'.reqs[r].params[1] = t.callFrameId
        /\ (last'.op = "dumpVariable.eval") =>
               Len(EvaluateRequests(last'.reqs)) = 1 ]_vars

\* dumpVariable has printed the x of g, the second frame of the stack, from
\* a slice evaluated on the call frame of f, the first
C20_Witness ==
    /\ last.op = "dumpVariable.eval"
    /\ last.ret.t = "value"
    /\ last.arg[2] = 32
    /\ EvaluateRequests(last.reqs) =
           <<Request("Debugger.evaluateOnCallFrame", <<"c1", 200, 208>>)>>

\* C19: a module whose script-loaded notification arrived before a page
\* navigation that has been handled is not in the module registry: when
\* the getScriptSource round-trip of such a notification is answered after
\* the navigation, the registry stays as it is.
C19_NoModuleOfALeftPage ==
    [][ \A t \in Suspended :
            (/\ t.kind = "onScriptLoaded"
             /\ t.navigated
             /\ last'.op = "onScriptLoaded.return"
             /\ tasks' = Without(t)) => sources' = sources ]_vars

BreakPointCommandsInFlight ==
    Count("setBreakPoint") + Count("removeBreakPoint") + Count("removeAllBreakPoints")

\* C18: with a gateway that fails no request, whenever no breakpoint command
\* is suspended the protocol ids of the registry's records are, one record
\* each, exactly the protocol ids the gateway has handed out and has not
\* been asked to remove.
C18_RegistryMirrorsGateway ==
    BreakPointCommandsInFlight = 0 =>
        /\ {breakPoints[i].rawId : i \in DOMAIN breakPoints} = gateway.breakpoints
        /\ Cardinality(gateway.breakpoints) = Len(breakPoints)

\* a setBreakPoint has returned last, no breakpoint command is suspended,
\* and of the protocol ids handed out so far one has been removed and the
\* latest is held by the only record
C18_Witness ==
    /\ BreakPointCommandsInFlight = 0
    /\ last.op = "setBreakPoint.return"
    /\ gateway.nextId > 2
    /\ Len(breakPoints) = 1
    /\ breakPoints[1].rawId = gateway.nextId - 1

====
